---------------------------- MODULE Spec2Model ----------------------------
(***************************************************************************)
(* mchttpinfowrapper: the Minecraft process supervisor (ServerWrapper),    *)
(* its world access lock, and the HTTP handlers that drive it.             *)
(*                                                                         *)
(* Everything runs on one asyncio event loop, so a step of the model is    *)
(* what one task does between two suspension points (a "yield from" that   *)
(* really waits).  asyncio.Lock and asyncio.Condition are modelled by      *)
(* their contract: acquire() returns at once when the lock is free and     *)
(* otherwise suspends until it is; Condition.wait() releases the lock,     *)
(* suspends until notified and then takes the lock again.                  *)
(***************************************************************************)
EXTENDS Integers, Sequences, FiniteSets, TLC

\* number of HTTP requests that can be in flight at the same time
MaxReq == 3
\* largest number of entries os.walk yields for the world directory
MaxFiles == 2
\* largest number of lines written to one child process's stdin
MaxStdin == 2

\* latest time of the clock _now_tz reads, the clock starting at 0
MaxClock == 2
\* largest number of lines of the child's output not yet read by handle_output
MaxPipe == 2
\* largest number of characters held by the StreamReader of the input relay
MaxBuffer == 3

\* largest number of handlers of send_command_and_wait in the registry: those of
\* the calls outstanding and those left behind by calls that failed
MaxCmd == 2

\* the caller of ServerWrapper.start in Application.run
App == 0
HttpReq == 1..MaxReq
Req == {App} \cup HttpReq
\* the callers of ServerWrapper.send_command_and_wait; 0 stands for a call that is over
Caller == 1..MaxCmd

Max(a, b) == IF a >= b THEN a ELSE b
\* None, where a time is expected
None == -1

VARIABLES
    status,            \* ServerWrapper._status
    process,           \* ServerWrapper.process: "none", or the child, "live" or "exited"
    world_reading,     \* ServerWrapper._world_reading
    world_read_cond,   \* TRUE when the lock of _world_read_cond is held
    world_write_lock,  \* TRUE when _world_write_lock is held
    relay_tasks,       \* _input_task and _output_task: "none", "running", "cancelled"
    cleanup_task,      \* TRUE when a _clean_up_after_stop task waits for the exit
    stdin,             \* the lines written to the child's stdin
    kind,              \* per request in flight: the operation it runs
    pc,                \* per request: where its coroutine is suspended
    remaining,         \* per export: world entries not yet added to the archive
    response,          \* what the last step returned to a caller, if it returned
    log_events,        \* ServerWrapper._log_events
    cmd,               \* per send_command_and_wait call: where it waits, its sem and mm
    returned,          \* what send_command_and_wait returned in the last step, if it did
    dispatch,          \* the line handle_log_line handled in the last step, if it did
    fs,                \* the files and directories in and around the working directory
    upload,            \* the archive posted to /world/archive, or made by an export
    outcome,           \* how the last import, export or world_extract ended
    players,           \* ServerWrapper._players: the join time of each key
    last_part,         \* ServerWrapper._last_part
    now,               \* the time _now_tz returns
    pipe,              \* process.stdout: the lines the child printed, not yet read
    input_stream       \* the buffer of ServerWrapper._input_stream

relayVars == <<log_events, cmd, returned, dispatch>>
rosterVars == <<players, last_part, now>>
ioVars == <<pipe, input_stream>>
worldVars == <<fs, upload, outcome>>
serverVars == <<status, process, world_reading, world_read_cond, world_write_lock,
                relay_tasks, cleanup_task, stdin, kind, pc, remaining, response>>

vars == <<status, process, world_reading, world_read_cond, world_write_lock,
          relay_tasks, cleanup_task, stdin, kind, pc, remaining, response,
          log_events, cmd, returned, dispatch, fs, upload, outcome,
          players, last_part, now, pipe, input_stream>>

Statuses == {"stopped", "starting", "running", "stopping"}
Kinds == {"none", "start", "stop", "export", "import"}
PCs == {"idle", "aw_lock", "aw_wait", "aw_reacq", "aw_wlock", "spawning", "post",
        "ar_lock", "streaming", "eof", "rr_lock", "rr_cancelled", "done", "failed"}
Results == {"ok", "405", "403", "error", "stream_error", "noop", "extract_error",
            "cancelled"}
Messages == {"ready", "other"}
NoResponse == [req |-> App, op |-> "none", result |-> "none"]
Responses == [req : Req, op : Kinds \ {"none"}, result : Results] \cup {NoResponse}

\* the lines the child can print: a blank line, a line _log_line_re does not match,
\* and parsed lines, which stand for their msg group
Lines == {"", "garbage", "ready", "other", "a", "b", "ab"}
\* the players, and the messages of the child about them
Names == {"Alice", "Bob"}
joined_msg(name) == IF name = "Alice" THEN "Alice joined the game" ELSE "Bob joined the game"
left_msg(name) == IF name = "Alice" THEN "Alice left the game" ELSE "Bob left the game"
RosterLines == {joined_msg(name) : name \in Names} \cup {left_msg(name) : name \in Names}
AllLines == Lines \cup RosterLines
\* m.group('name')
group_name(msg) == CHOOSE name \in Names : msg \in {joined_msg(name), left_msg(name)}
\* the patterns of the handlers __init__ registers, and those given to
\* send_command_and_wait
\* the lines written to the child by stop and by send_command_and_wait
CommandLines == {"stop", "list"}
Patterns == {"joined", "left", "started", "A", "B"}
Callbacks == {"player_joined", "player_left", "server_started", "callback"}
\* pattern.match(msg)
match(pattern, msg) ==
    CASE pattern = "started" -> msg = "ready"
      [] pattern = "joined" -> \E name \in Names : msg = joined_msg(name)
      [] pattern = "left" -> \E name \in Names : msg = left_msg(name)
      [] pattern = "A" -> msg \in {"a", "ab"}
      [] pattern = "B" -> msg \in {"b", "ab"}
      [] OTHER -> FALSE
\* an element of _log_events; caller and suppress belong to the closure of the
\* callback of send_command_and_wait
Entries == [pattern : Patterns, callback : Callbacks, caller : 0..MaxCmd, suppress : BOOLEAN]
add_log_event(pattern, callback, caller, suppress) ==
    [pattern |-> pattern, callback |-> callback, caller |-> caller, suppress |-> suppress]
NoCall == [pc |-> "idle", sem |-> 0, mm |-> "none"]
NoReturn == [caller |-> 0, value |-> "none"]
NoDispatch == [line |-> "none", invoked |-> <<>>, record |-> "none", raised |-> FALSE,
               suppress |-> FALSE]

\* the characters typed on the standard input of the wrapper
InputChars == {"l", "s", "\n"}

TypeOK ==
    /\ status \in Statuses
    /\ process \in {"none", "live", "exited"}
    /\ world_reading \in 0..MaxReq
    /\ world_read_cond \in BOOLEAN
    /\ world_write_lock \in BOOLEAN
    /\ relay_tasks \in {"none", "running", "failed", "cancelled"}
    /\ cleanup_task \in BOOLEAN
    /\ stdin \in Seq({<<line, "\n">> : line \in CommandLines} \cup Seq(InputChars))
    /\ Len(stdin) <= MaxStdin
    /\ kind \in [Req -> Kinds]
    /\ pc \in [Req -> PCs]
    /\ remaining \in [Req -> 0..MaxFiles]
    /\ response \in Responses
    /\ log_events \in Seq(Entries) /\ Len(log_events) <= 3 + MaxCmd
    /\ cmd \in [Caller -> [pc : {"idle", "waiting"}, sem : 0..1, mm : Lines \cup {"none"}]]
    /\ returned \in [caller : 0..MaxCmd, value : Lines \cup {"none", "error"}]
    /\ dispatch \in [line : AllLines \cup {"none"}, invoked : Seq(Entries),
                     record : AllLines \cup {"none"}, raised : BOOLEAN, suppress : BOOLEAN]
    /\ DOMAIN players \subseteq Names
    /\ \A name \in DOMAIN players : players[name] \in 0..MaxClock
    /\ last_part \in {None} \cup 0..MaxClock
    /\ now \in 0..MaxClock
    /\ pipe \in Seq(AllLines) /\ Len(pipe) <= MaxPipe
    /\ input_stream \in Seq(InputChars) /\ Len(input_stream) <= MaxBuffer

\* no archive
NoUpload == [file |-> <<>>, members |-> <<>>, source |-> "none", tree |-> {}]
\* no import, export or world_extract in the last step
NoOutcome == [op |-> "none", result |-> "none", reader |-> "none", dirname |-> <<>>]

\* ServerWrapper.__init__
ServerInit ==
    /\ status = "stopped"
    /\ process = "none"
    /\ world_reading = 0
    /\ world_read_cond = FALSE
    /\ world_write_lock = FALSE
    /\ relay_tasks = "none"
    /\ cleanup_task = FALSE
    /\ stdin = <<>>
    /\ kind = [r \in Req |-> "none"]
    /\ pc = [r \in Req |-> "idle"]
    /\ remaining = [r \in Req |-> 0]
    /\ response = NoResponse
    /\ log_events = << add_log_event("joined", "player_joined", 0, FALSE),
                       add_log_event("left", "player_left", 0, FALSE),
                       add_log_event("started", "server_started", 0, FALSE) >>
    /\ cmd = [c \in Caller |-> NoCall]
    /\ returned = NoReturn
    /\ dispatch = NoDispatch
    /\ players = <<>>
    /\ last_part = None
    /\ now = 0
    /\ pipe = <<>>
    /\ input_stream = <<>>

\* the files of the working directory are followed in ArchiveSpec only
Init ==
    /\ ServerInit
    /\ fs = {}
    /\ upload = NoUpload
    /\ outcome = NoOutcome

\* a step that is neither of the output relay nor of send_command_and_wait
RelayIdle ==
    /\ returned' = NoReturn
    /\ dispatch' = NoDispatch
    /\ UNCHANGED <<log_events, cmd>>
    /\ UNCHANGED worldVars
    /\ UNCHANGED rosterVars

\* the HTTP server is started once the first start() has returned
HttpUp == pc[App] = "done"

stop_unguarded == TRUE
can_start == status = "stopped"
can_stop == status = "running"

\* the predicate acquire_write waits for
readers_ignored == TRUE
ReadersDrained == world_reading = 0

\* Condition.notify_all: every task in Condition.wait goes on to retake the lock
notify_all(p) == [x \in Req |-> IF p[x] = "aw_wait" THEN "aw_reacq" ELSE p[x]]

\* r, running operation k, suspends at where
suspend(r, k, where) ==
    /\ pc' = [pc EXCEPT ![r] = where]
    /\ kind' = [kind EXCEPT ![r] = k]
    /\ response' = NoResponse

\* r, running operation k, returns or raises: res goes to its caller; p is pc as
\* the step has left it for the other requests
finish(p, r, k, res) ==
    /\ pc' = [p EXCEPT ![r] = IF r # App THEN "idle"
                              ELSE IF res = "ok" THEN "done" ELSE "failed"]
    /\ kind' = [kind EXCEPT ![r] = "none"]
    /\ response' = [req |-> r, op |-> k, result |-> res]

\* ServerWrapper.start from the grant of the write permit to the suspension in
\* create_subprocess_exec; prepared is FALSE when os.mkdir or agree_to_eula raises
start_granted(r, prepared) ==
    /\ status' = "starting"
    /\ IF prepared THEN suspend(r, "start", "spawning")
                   ELSE finish(pc, r, "start", "error")

\* handle_post_world_archive from the grant of the write permit to request.post()
import_granted(r) ==
    /\ suspend(r, "import", "post")
    /\ UNCHANGED status

\* acquire_write that lets go of the condition's lock once the readers are gone
acquire_write_gate_dropped(r, k, blocked) ==
    IF world_read_cond
    THEN /\ suspend(r, k, blocked)
         /\ UNCHANGED <<world_read_cond, world_write_lock, status>>
    ELSE IF ~ReadersDrained
    THEN /\ suspend(r, k, "aw_wait")
         /\ UNCHANGED <<world_read_cond, world_write_lock, status>>
    ELSE IF world_write_lock
    THEN /\ world_read_cond' = TRUE
         /\ suspend(r, k, "aw_wlock")
         /\ UNCHANGED <<world_write_lock, status>>
    ELSE /\ world_read_cond' = FALSE
         /\ world_write_lock' = TRUE
         /\ IF k = "start"
            THEN \E prepared \in BOOLEAN : start_granted(r, prepared)
            ELSE import_granted(r)

\* acquire_write that takes neither lock for good: it only waits for the readers
acquire_write_not_exclusive(r, k, blocked) ==
    IF world_read_cond
    THEN /\ suspend(r, k, blocked)
         /\ UNCHANGED <<world_read_cond, world_write_lock, status>>
    ELSE IF ~ReadersDrained
    THEN /\ suspend(r, k, "aw_wait")
         /\ UNCHANGED <<world_read_cond, world_write_lock, status>>
    ELSE /\ world_read_cond' = FALSE
         /\ world_write_lock' = TRUE
         /\ IF k = "start"
            THEN \E prepared \in BOOLEAN : start_granted(r, prepared)
            ELSE import_granted(r)

\* ServerWrapper.acquire_write, from the point where r tries to take the lock of
\* the condition (k is the operation r runs, blocked where r waits if it is held)
acquire_write(r, k, blocked) ==
    IF world_read_cond
    THEN /\ suspend(r, k, blocked)
         /\ UNCHANGED <<world_read_cond, world_write_lock, status>>
    ELSE IF ~ReadersDrained
    THEN \* Condition.wait: the lock is released while r waits to be notified
         /\ suspend(r, k, "aw_wait")
         /\ UNCHANGED <<world_read_cond, world_write_lock, status>>
    ELSE IF world_write_lock
    THEN /\ world_read_cond' = TRUE
         /\ suspend(r, k, "aw_wlock")
         /\ UNCHANGED <<world_write_lock, status>>
    ELSE /\ world_read_cond' = TRUE
         /\ world_write_lock' = TRUE
         /\ IF k = "start"
            THEN \E prepared \in BOOLEAN : start_granted(r, prepared)
            ELSE import_granted(r)

\* release_write that forgets the lock of the condition
release_write_keeps_gate ==
    /\ world_write_lock' = FALSE
    /\ UNCHANGED world_read_cond

\* ServerWrapper.release_write; Lock.release raises when the lock is not held
release_write ==
    IF world_write_lock
    THEN /\ world_write_lock' = FALSE
         /\ world_read_cond' = FALSE
    ELSE UNCHANGED <<world_write_lock, world_read_cond>>

release_write_raises == ~world_write_lock \/ ~world_read_cond

\* release_read reached only when the handler ends without an exception
release_read_not_on_error(r, count, res) ==
    /\ world_reading' = IF res \in {"error", "stream_error"} THEN count ELSE Max(0, count - 1)
    /\ finish(notify_all(pc), r, "export", res)
    /\ remaining' = [remaining EXCEPT ![r] = 0]

\* ServerWrapper.release_read by r, in the finally clause of the export handler:
\* count is the reader count at the call, res what the handler returns or raises
release_read(r, count, res) ==
    IF world_read_cond
    THEN /\ suspend(r, "export", "rr_lock")
         /\ world_reading' = count
         /\ UNCHANGED remaining
    ELSE /\ world_reading' = Max(0, count - 1)
         /\ finish(notify_all(pc), r, "export", res)
         /\ remaining' = [remaining EXCEPT ![r] = 0]

\* ServerWrapper.acquire_read: the reader count once the permit is granted
read_forgotten == world_reading
acquire_read == world_reading + 1

\* ServerWrapper.world_files: the number of entries the generator yields
world_files == IF status # "stopped" THEN {0} ELSE 0..MaxFiles

\* handle_get_world_archive from acquire_read to its first suspension
export_body(r) ==
    IF world_read_cond
    THEN /\ suspend(r, "export", "ar_lock")
         /\ UNCHANGED <<world_reading, remaining>>
    ELSE \/ \* no format parameter (403), or a format ArchiveResponse.new does not know
            \E res \in {"403", "error"} : release_read(r, acquire_read, res)
         \/ \E n \in world_files :
               IF n = 0
               THEN /\ world_reading' = acquire_read
                    /\ suspend(r, "export", "eof")
                    /\ UNCHANGED remaining
               ELSE \/ /\ world_reading' = acquire_read
                       /\ suspend(r, "export", "streaming")
                       /\ remaining' = [remaining EXCEPT ![r] = n - 1]
                    \/ \* response.add raises on the first entry
                       release_read(r, acquire_read, "stream_error")

\* rejection by a handler: method_not_allowed
reject(r, k) == finish(pc, r, k, "405")

----------------------------------------------------------------------------
\* Application.run: the first start(), not gated by can_start
AppRun ==
    /\ RelayIdle /\ UNCHANGED ioVars
    /\ pc[App] = "idle"
    /\ acquire_write(App, "start", "aw_lock")
    /\ UNCHANGED <<process, world_reading, relay_tasks, cleanup_task, stdin, remaining>>

\* Server.handle_post_server_start
HandlePostServerStart(r) ==
    /\ RelayIdle /\ UNCHANGED ioVars
    /\ HttpUp /\ r \in HttpReq /\ pc[r] = "idle"
    /\ IF ~can_start
       THEN reject(r, "start") /\ UNCHANGED <<status, world_read_cond, world_write_lock>>
       ELSE acquire_write(r, "start", "aw_lock")
    /\ UNCHANGED <<process, world_reading, relay_tasks, cleanup_task, stdin, remaining>>

\* send_command that leaves out the line terminator
send_command_unterminated(line) == stdin' = Append(stdin, <<line>>)

\* ServerWrapper.send_command: one write of "{0}\n".format(line) to process.stdin,
\* which raises when self.process is None
send_command(line) == stdin' = Append(stdin, <<line, "\n">>)
send_command_raises == process = "none"

\* stop that marks the server stopped before it has exited
stop_sets_stopped(r) ==
    /\ status' = "stopped"
    /\ Len(stdin) < MaxStdin
    /\ send_command("stop")
    /\ finish(pc, r, "stop", "ok")

\* ServerWrapper.stop and send_command('stop')
stop(r) ==
    /\ status' = "stopping"
    /\ IF send_command_raises
       THEN /\ finish(pc, r, "stop", "error")
            /\ UNCHANGED stdin
       ELSE /\ Len(stdin) < MaxStdin
            /\ send_command("stop")
            /\ finish(pc, r, "stop", "ok")

\* Server.handle_post_server_stop
HandlePostServerStop(r) ==
    /\ RelayIdle /\ UNCHANGED ioVars
    /\ HttpUp /\ r \in HttpReq /\ pc[r] = "idle"
    /\ IF ~can_stop
       THEN reject(r, "stop") /\ UNCHANGED <<status, stdin>>
       ELSE stop(r)
    /\ UNCHANGED <<process, world_reading, world_read_cond, world_write_lock,
                   relay_tasks, cleanup_task, remaining>>

\* Server.handle_get_world_archive
HandleGetWorldArchive(r) ==
    /\ RelayIdle /\ UNCHANGED ioVars
    /\ HttpUp /\ r \in HttpReq /\ pc[r] = "idle"
    /\ IF status # "stopped"
       THEN reject(r, "export") /\ UNCHANGED <<world_reading, remaining>>
       ELSE export_body(r)
    /\ UNCHANGED <<status, process, world_read_cond, world_write_lock, relay_tasks,
                   cleanup_task, stdin>>

\* Server.handle_post_world_archive
HandlePostWorldArchive(r) ==
    /\ RelayIdle /\ UNCHANGED ioVars
    /\ HttpUp /\ r \in HttpReq /\ pc[r] = "idle"
    /\ IF status # "stopped"
       THEN reject(r, "import") /\ UNCHANGED <<status, world_read_cond, world_write_lock>>
       ELSE acquire_write(r, "import", "aw_lock")
    /\ UNCHANGED <<process, world_reading, relay_tasks, cleanup_task, stdin, remaining>>

\* acquire_write resumed: the lock of the condition has become free
AcquireWriteResume(r) ==
    /\ RelayIdle /\ UNCHANGED ioVars
    /\ pc[r] \in {"aw_lock", "aw_reacq"}
    /\ ~world_read_cond
    /\ acquire_write(r, kind[r], pc[r])
    /\ UNCHANGED <<process, world_reading, relay_tasks, cleanup_task, stdin, remaining>>

\* ServerWrapper.start resumed from create_subprocess_exec
SpawnDone(r) ==
    /\ RelayIdle
    /\ pc[r] = "spawning"
    /\ \/ /\ process' = "live"
          /\ relay_tasks' = "running"
          /\ cleanup_task' = TRUE
          /\ stdin' = <<>>
          /\ pipe' = <<>>
          /\ input_stream' = <<>>
          /\ finish(pc, r, "start", "ok")
       \/ /\ finish(pc, r, "start", "error")
          /\ UNCHANGED <<process, relay_tasks, cleanup_task, stdin>>
          /\ UNCHANGED ioVars
    /\ UNCHANGED <<status, world_reading, world_read_cond, world_write_lock, remaining>>

\* ServerWrapper.world_extract: what a call does to the world directories
world_extract == IF status # "stopped" THEN {"noop"} ELSE {"ok", "extract_error"}

\* handle_post_world_archive resumed from request.post()
RequestPostDone(r) ==
    /\ RelayIdle /\ UNCHANGED ioVars
    /\ pc[r] = "post"
    /\ \E res \in {"403", "error"} \cup world_extract :
          finish(pc, r, "import", IF release_write_raises THEN "error" ELSE res)
    /\ release_write
    /\ UNCHANGED <<status, process, world_reading, relay_tasks, cleanup_task, stdin,
                   remaining>>

\* acquire_read resumed: the lock of the condition has become free
AcquireReadResume(r) ==
    /\ RelayIdle /\ UNCHANGED ioVars
    /\ pc[r] = "ar_lock"
    /\ ~world_read_cond
    /\ export_body(r)
    /\ UNCHANGED <<status, process, world_read_cond, world_write_lock, relay_tasks,
                   cleanup_task, stdin>>

\* the export resumed from response.add: the next entry, or write_eof
ExportStep(r) ==
    /\ RelayIdle /\ UNCHANGED ioVars
    /\ pc[r] = "streaming"
    /\ IF remaining[r] = 0
       THEN /\ suspend(r, "export", "eof")
            /\ UNCHANGED <<world_reading, remaining>>
       ELSE \/ /\ remaining' = [remaining EXCEPT ![r] = @ - 1]
               /\ suspend(r, "export", "streaming")
               /\ UNCHANGED world_reading
            \/ release_read(r, world_reading, "stream_error")
    /\ UNCHANGED <<status, process, world_read_cond, world_write_lock, relay_tasks,
                   cleanup_task, stdin>>

\* the export resumed from write_eof, then the finally clause
ExportEof(r) ==
    /\ RelayIdle /\ UNCHANGED ioVars
    /\ pc[r] = "eof"
    /\ \E res \in {"ok", "stream_error"} : release_read(r, world_reading, res)
    /\ UNCHANGED <<status, process, world_read_cond, world_write_lock, relay_tasks,
                   cleanup_task, stdin>>

\* the child process terminates
ProcessExit ==
    /\ RelayIdle /\ UNCHANGED ioVars
    /\ process = "live"
    /\ process' = "exited"
    /\ response' = NoResponse
    /\ UNCHANGED <<status, world_reading, world_read_cond, world_write_lock,
                   relay_tasks, cleanup_task, stdin, kind, pc, remaining>>

\* ServerWrapper._clean_up_after_stop resumed from process.wait()
CleanUpAfterStop ==
    /\ RelayIdle
    /\ pipe' = <<>>
    /\ UNCHANGED input_stream
    /\ cleanup_task /\ process = "exited"
    /\ status' = "stopped"
    /\ relay_tasks' = "cancelled"
    /\ process' = "none"
    /\ cleanup_task' = FALSE
    /\ release_write
    /\ response' = NoResponse
    /\ UNCHANGED <<world_reading, stdin, kind, pc, remaining>>

\* list.remove: the list without its first element equal to e
RECURSIVE remove(_, _)
remove(events, e) ==
    IF events = <<>> THEN <<>>
    ELSE IF Head(events) = e THEN Tail(events)
    ELSE <<Head(events)>> \o remove(Tail(events), e)

\* ServerWrapper.remove_log_event
remove_log_event(events, e) == remove(events, e)

\* The handlers work on st: the registry, the calls, the status, the handlers
\* invoked so far for this message, the suppress flag of trigger_log_events and
\* whether a handler has raised; result is what the last handler returned.

\* ServerWrapper._server_started_callback
server_started_callback(st) == [st EXCEPT !.status = "running", !.result = "None"]

\* the callback of send_command_and_wait, e its entry: "yield from sem.release()"
\* releases the semaphore and then raises TypeError, release() returning None
callback(e, st, msg) ==
    [st EXCEPT !.events = remove_log_event(@, e),
               !.cmd = IF e.caller = 0 THEN @
                       ELSE [@ EXCEPT ![e.caller].mm = msg, ![e.caller].sem = @ + 1],
               !.raised = TRUE]

\* dict item assignment
setitem(d, key, value) ==
    [k \in DOMAIN d \cup {key} |-> IF k = key THEN value ELSE d[k]]
\* del d[key], the key in d
delitem(d, key) == [k \in DOMAIN d \ {key} |-> d[k]]

\* a join callback that forgets the clock: the join time is the time of the first
\* reading
player_joined_callback_stale(st, name) ==
    [st EXCEPT !.players = setitem(@, name, 0), !.result = "None"]

\* ServerWrapper._player_joined_callback
player_joined_callback(st, name) ==
    [st EXCEPT !.players = setitem(@, name, now), !.result = "None"]

\* ServerWrapper._player_left_callback: del raises KeyError when the name is no key
player_left_callback(st, name) ==
    IF name \in DOMAIN st.players
    THEN [st EXCEPT !.players = delitem(@, name), !.last_part = now, !.result = "None"]
    ELSE [st EXCEPT !.raised = TRUE]

\* callback(m) in trigger_log_events, and "suppress = suppress or result"
invoke(e, st, msg) ==
    LET called == [st EXCEPT !.invoked = Append(@, e), !.result = "None"]
        after == CASE e.callback = "server_started" -> server_started_callback(called)
                   [] e.callback = "callback" -> callback(e, called, msg)
                   [] e.callback = "player_joined" ->
                          player_joined_callback(called, group_name(msg))
                   [] e.callback = "player_left" ->
                          player_left_callback(called, group_name(msg))
                   [] OTHER -> called
    IN  IF after.raised THEN after
        ELSE [after EXCEPT !.suppress = @ \/ after.result = "True"]

\* ServerWrapper.trigger_log_events from the i-th element of _log_events on: the
\* for loop reads the list by index, as it is when the element is reached
RECURSIVE trigger_log_events(_, _, _)
trigger_log_events(i, st, msg) ==
    IF st.raised \/ i > Len(st.events) THEN st
    ELSE trigger_log_events(i + 1,
                            IF match(st.events[i].pattern, msg)
                            THEN invoke(st.events[i], st, msg) ELSE st,
                            msg)

\* ServerWrapper.handle_log_line
handle_log_line(line) ==
    LET st == [events |-> log_events, cmd |-> cmd, status |-> status,
               players |-> players, last_part |-> last_part,
               invoked |-> <<>>, suppress |-> FALSE, raised |-> FALSE, result |-> "None"]
    IN  IF line \in {"", "garbage"} THEN st ELSE trigger_log_events(1, st, line)

\* the body of the loop of handle_output on a line read from process.stdout: an
\* exception of a handler ends the output task
Dispatch(line) ==
    /\ relay_tasks = "running" /\ process # "none"
    /\ LET st == handle_log_line(line)
       IN  /\ status' = st.status
           /\ players' = st.players
           /\ last_part' = st.last_part
           /\ log_events' = st.events
           /\ cmd' = st.cmd
           /\ relay_tasks' = IF st.raised THEN "failed" ELSE relay_tasks
           /\ dispatch' = [line |-> line, invoked |-> st.invoked, raised |-> st.raised,
                           suppress |-> st.suppress,
                           record |-> IF line = "" \/ st.raised \/ st.suppress
                                      THEN "none" ELSE line]
    /\ response' = NoResponse
    /\ returned' = NoReturn
    /\ UNCHANGED <<process, world_reading, world_read_cond, world_write_lock,
                   cleanup_task, stdin, kind, pc, remaining>>
    /\ UNCHANGED worldVars
    /\ UNCHANGED <<now, input_stream>>

\* handle_output: the child prints a line, which is read and handled
HandleLogLine(line) == Dispatch(line) /\ UNCHANGED pipe

\* ServerWrapper.send_command_and_wait called by c, up to its first suspension
SendCommandAndWait(c, line, pattern, suppress) ==
    /\ cmd[c].pc = "idle"
    /\ Len(log_events) < 3 + MaxCmd
    /\ IF send_command_raises
       THEN \* the handler stays in the registry, its call is over
            /\ log_events' = Append(log_events, add_log_event(pattern, "callback", 0, suppress))
            /\ returned' = [caller |-> c, value |-> "error"]
            /\ UNCHANGED <<cmd, stdin>>
       ELSE /\ Len(stdin) < MaxStdin
            /\ log_events' = Append(log_events, add_log_event(pattern, "callback", c, suppress))
            /\ send_command(line)
            /\ cmd' = [cmd EXCEPT ![c].pc = "waiting"]
            /\ returned' = NoReturn
    /\ dispatch' = NoDispatch
    /\ response' = NoResponse
    /\ UNCHANGED <<status, process, world_reading, world_read_cond, world_write_lock,
                   relay_tasks, cleanup_task, kind, pc, remaining>>
    /\ UNCHANGED worldVars
    /\ UNCHANGED rosterVars /\ UNCHANGED ioVars

\* send_command_and_wait resumed from sem.acquire()
CommandReturn(c) ==
    /\ cmd[c].pc = "waiting" /\ cmd[c].sem > 0
    /\ returned' = [caller |-> c, value |-> cmd[c].mm]
    /\ cmd' = [cmd EXCEPT ![c] = NoCall]
    /\ dispatch' = NoDispatch
    /\ response' = NoResponse
    /\ UNCHANGED <<status, process, world_reading, world_read_cond, world_write_lock,
                   relay_tasks, cleanup_task, stdin, kind, pc, remaining, log_events>>
    /\ UNCHANGED worldVars
    /\ UNCHANGED rosterVars /\ UNCHANGED ioVars

Next ==
    \/ AppRun
    \/ \E r \in HttpReq : HandlePostServerStart(r)
    \/ \E r \in HttpReq : HandlePostServerStop(r)
    \/ \E r \in HttpReq : HandleGetWorldArchive(r)
    \/ \E r \in HttpReq : HandlePostWorldArchive(r)
    \/ \E r \in Req : AcquireWriteResume(r)
    \/ \E r \in Req : SpawnDone(r)
    \/ \E r \in HttpReq : RequestPostDone(r)
    \/ \E r \in HttpReq : AcquireReadResume(r)
    \/ \E r \in HttpReq : ExportStep(r)
    \/ \E r \in HttpReq : ExportEof(r)
    \/ ProcessExit
    \/ CleanUpAfterStop
    \/ \E msg \in Messages : HandleLogLine(msg)

Spec == Init /\ [][Next]_vars

\* the server as Application.run starts it, its output relay and the callers of
\* send_command_and_wait, stopped by HTTP requests
RelayNext ==
    \/ AppRun
    \/ \E r \in HttpReq : HandlePostServerStop(r)
    \/ \E r \in Req : SpawnDone(r)
    \/ ProcessExit
    \/ CleanUpAfterStop
    \/ \E line \in Lines : HandleLogLine(line)
    \/ \E c \in Caller, pattern \in {"A", "B"}, suppress \in BOOLEAN :
          SendCommandAndWait(c, "list", pattern, suppress)
    \/ \E c \in Caller : CommandReturn(c)

RelaySpec == Init /\ [][RelayNext]_vars

\* start() creates the _clean_up_after_stop task, and the event loop resumes it
\* once process.wait() has completed
FairSpec == Spec /\ WF_vars(CleanUpAfterStop)

\* time passes: _now_tz reads the clock of the host
Tick ==
    /\ now < MaxClock
    /\ now' = now + 1
    /\ response' = NoResponse
    /\ returned' = NoReturn
    /\ dispatch' = NoDispatch
    /\ UNCHANGED <<status, process, world_reading, world_read_cond, world_write_lock,
                   relay_tasks, cleanup_task, stdin, kind, pc, remaining>>
    /\ UNCHANGED <<log_events, cmd, players, last_part>>
    /\ UNCHANGED worldVars /\ UNCHANGED ioVars

\* the server over several runs, started by Application.run and later by HTTP
\* requests, the child printing join and leave messages
RosterNext ==
    \/ AppRun
    \/ \E r \in HttpReq : HandlePostServerStart(r)
    \/ \E r \in HttpReq : HandlePostServerStop(r)
    \/ \E r \in Req : SpawnDone(r)
    \/ ProcessExit
    \/ CleanUpAfterStop
    \/ \E line \in RosterLines \cup Messages : HandleLogLine(line)
    \/ Tick

RosterSpec == Init /\ [][RosterNext]_vars

\* a step of the child or of the terminal, the wrapper not running
Outside ==
    /\ response' = NoResponse
    /\ returned' = NoReturn
    /\ dispatch' = NoDispatch
    /\ UNCHANGED <<status, process, world_reading, world_read_cond, world_write_lock,
                   relay_tasks, cleanup_task, kind, pc, remaining>>
    /\ UNCHANGED <<log_events, cmd>>
    /\ UNCHANGED worldVars /\ UNCHANGED rosterVars

\* the lines the child prints in PipeSpec
Emitted == Messages \cup {joined_msg("Alice"), left_msg("Alice")}

\* the child prints a line on its standard output
Emit(line) ==
    /\ process = "live"
    /\ Len(pipe) < MaxPipe
    /\ pipe' = Append(pipe, line)
    /\ UNCHANGED <<stdin, input_stream>>
    /\ Outside

\* a readline that returns the line printed last
readline_newest(stream) ==
    [data |-> stream[Len(stream)], rest |-> SubSeq(stream, 1, Len(stream) - 1)]

\* StreamReader.readline on a stream that holds a line: the first line, and what
\* the stream holds after it
readline(stream) == [data |-> Head(stream), rest |-> Tail(stream)]

\* handle_output resumed from process.stdout.readline(): the line is handled, and
\* the task suspends in the next readline
HandleOutput ==
    /\ pipe # <<>>
    /\ Dispatch(readline(pipe).data)
    /\ pipe' = readline(pipe).rest

\* the server as Application.run starts it, the child printing lines that the
\* output task reads later
PipeNext ==
    \/ AppRun
    \/ \E r \in HttpReq : HandlePostServerStop(r)
    \/ \E r \in Req : SpawnDone(r)
    \/ ProcessExit
    \/ CleanUpAfterStop
    \/ \E line \in Emitted : Emit(line)
    \/ HandleOutput

PipeSpec == Init /\ [][PipeNext]_vars

\* what one stream.read(1024) of relay_input returns: the characters typed since
\* the last read, wherever the lines end
Chunks == {chunk \in UNION {[1..n -> InputChars] : n \in 1..2} : TRUE}

\* relay_input called by the event loop, the standard input being readable: the
\* reader is registered from handle_io to _clean_up_after_stop
RelayInput(data) ==
    /\ process # "none"
    /\ Len(input_stream) + Len(data) <= MaxBuffer
    /\ input_stream' = input_stream \o data
    /\ UNCHANGED <<stdin, pipe>>
    /\ Outside

\* the index of the first terminator in the buffer, 0 when there is none
terminator(buffer) ==
    IF \E i \in 1..Len(buffer) : buffer[i] = "\n"
    THEN CHOOSE i \in 1..Len(buffer) :
            buffer[i] = "\n" /\ \A j \in 1..(i - 1) : buffer[j] # "\n"
    ELSE 0

\* StreamReader.readline on _input_stream, a terminator being in the buffer
input_readline(buffer) ==
    [data |-> SubSeq(buffer, 1, terminator(buffer)),
     rest |-> SubSeq(buffer, terminator(buffer) + 1, Len(buffer))]

\* handle_input resumed from _input_stream.readline(): the line is written to the
\* child, or is the request for the list of players; the input task runs from
\* handle_io until _clean_up_after_stop cancels it
HandleInput ==
    /\ relay_tasks \in {"running", "failed"}
    /\ terminator(input_stream) > 0
    /\ input_stream' = input_readline(input_stream).rest
    /\ IF input_readline(input_stream).data = <<"l", "l", "\n">>
       THEN UNCHANGED stdin
       ELSE /\ Len(stdin) < MaxStdin
            /\ stdin' = Append(stdin, input_readline(input_stream).data)
    /\ UNCHANGED pipe
    /\ Outside

\* the server over several runs, lines typed on the standard input of the wrapper
\* relayed to the child while HTTP requests stop and start it
InputNext ==
    \/ AppRun
    \/ \E r \in HttpReq : HandlePostServerStart(r)
    \/ \E r \in HttpReq : HandlePostServerStop(r)
    \/ \E r \in Req : SpawnDone(r)
    \/ ProcessExit
    \/ CleanUpAfterStop
    \/ HandleLogLine("ready")
    \/ \E data \in Chunks : RelayInput(data)
    \/ HandleInput

InputSpec == Init /\ [][InputNext]_vars

\* The task of a request is cancelled (the client has gone) while it waits for the
\* lock of the condition in acquire_read or acquire_write: CancelledError is
\* raised at the "yield from", and the finally clause of the handler runs.
\* handle_post_server_start has none.
Cancel(r) ==
    /\ RelayIdle /\ UNCHANGED ioVars
    /\ r \in HttpReq
    /\ \/ /\ pc[r] = "ar_lock"
          /\ IF world_read_cond
             THEN suspend(r, "export", "rr_cancelled")
             ELSE finish(notify_all(pc), r, "export", "cancelled")
          /\ world_reading' = IF world_read_cond THEN world_reading
                               ELSE Max(0, world_reading - 1)
          /\ UNCHANGED <<world_read_cond, world_write_lock>>
       \/ /\ pc[r] = "aw_lock" /\ kind[r] = "import"
          /\ release_write
          /\ finish(pc, r, "import", IF release_write_raises THEN "error" ELSE "cancelled")
          /\ UNCHANGED world_reading
       \/ /\ pc[r] = "aw_lock" /\ kind[r] = "start"
          /\ finish(pc, r, "start", "cancelled")
          /\ UNCHANGED <<world_reading, world_read_cond, world_write_lock>>
    /\ UNCHANGED <<status, process, relay_tasks, cleanup_task, stdin, remaining>>

\* release_read resumed: the lock of the condition has become free
ReleaseReadResume(r) ==
    /\ RelayIdle /\ UNCHANGED ioVars
    /\ pc[r] \in {"rr_lock", "rr_cancelled"}
    /\ ~world_read_cond
    /\ world_reading' = Max(0, world_reading - 1)
    /\ \E res \in IF pc[r] = "rr_cancelled" THEN {"cancelled"}
                   ELSE {"ok", "403", "error", "stream_error"} :
          finish(notify_all(pc), r, "export", res)
    /\ remaining' = [remaining EXCEPT ![r] = 0]
    /\ UNCHANGED <<status, process, world_read_cond, world_write_lock, relay_tasks,
                   cleanup_task, stdin>>

\* the server and its HTTP requests, some of them cancelled while they wait
CancelNext ==
    \/ AppRun
    \/ \E r \in HttpReq : HandlePostServerStart(r)
    \/ \E r \in HttpReq : HandlePostServerStop(r)
    \/ \E r \in HttpReq : HandleGetWorldArchive(r)
    \/ \E r \in HttpReq : HandlePostWorldArchive(r)
    \/ \E r \in Req : AcquireWriteResume(r)
    \/ \E r \in Req : SpawnDone(r)
    \/ \E r \in HttpReq : RequestPostDone(r)
    \/ \E r \in HttpReq : AcquireReadResume(r)
    \/ \E r \in HttpReq : ExportStep(r)
    \/ \E r \in HttpReq : ExportEof(r)
    \/ ProcessExit
    \/ CleanUpAfterStop
    \/ \E msg \in Messages : HandleLogLine(msg)
    \/ \E r \in HttpReq : Cancel(r)
    \/ \E r \in HttpReq : ReleaseReadResume(r)

CancelSpec == Init /\ [][CancelNext]_vars

\* the first run of the server, and after it exports and imports only
PermitNext ==
    \/ AppRun
    \/ \E r \in HttpReq : HandleGetWorldArchive(r)
    \/ \E r \in HttpReq : HandlePostWorldArchive(r)
    \/ \E r \in Req : AcquireWriteResume(r)
    \/ \E r \in Req : SpawnDone(r)
    \/ \E r \in HttpReq : RequestPostDone(r)
    \/ \E r \in HttpReq : AcquireReadResume(r)
    \/ \E r \in HttpReq : ExportStep(r)
    \/ \E r \in HttpReq : ExportEof(r)
    \/ ProcessExit
    \/ CleanUpAfterStop

\* Every holder of a permit releases it: the child exits and is cleaned up, an
\* import ends, an export streams to its end.  The event loop runs every task that
\* is ready, and a task waiting for a lock gets its turn whenever the lock is
\* free again and again.
PermitFairness ==
    /\ WF_vars(ProcessExit) /\ WF_vars(CleanUpAfterStop)
    /\ \A r \in Req : WF_vars(SpawnDone(r))
    /\ \A r \in HttpReq : WF_vars(RequestPostDone(r))
    /\ \A r \in HttpReq : WF_vars(ExportStep(r)) /\ WF_vars(ExportEof(r))
    /\ \A r \in Req : SF_vars(AcquireWriteResume(r))
    /\ \A r \in HttpReq : SF_vars(AcquireReadResume(r))

PermitSpec == Init /\ [][PermitNext]_vars /\ PermitFairness

----------------------------------------------------------------------------
(***************************************************************************)
(* World import and export.  A string is a sequence of characters, where   *)
(* "L" stands for the name level.dat and "W" for the name world; a path in *)
(* the file system is the sequence of its components from the working      *)
(* directory, ".." leading out of it.                                      *)
(***************************************************************************)

Min(a, b) == IF a <= b THEN a ELSE b

\* str.startswith
startswith(s, prefix) ==
    Len(prefix) <= Len(s) /\ SubSeq(s, 1, Len(prefix)) = prefix

\* str.endswith('/')
endswith_slash(s) == s # <<>> /\ s[Len(s)] = "/"

\* the third element of str.partition(sep), for a sep that s starts with
partition_tail(s, sep) == SubSeq(s, Len(sep) + 1, Len(s))

\* str.lstrip('/')
RECURSIVE lstrip(_)
lstrip(s) == IF s # <<>> /\ Head(s) = "/" THEN lstrip(Tail(s)) ELSE s

\* str.split('/'), the component being read in acc
RECURSIVE split(_, _)
split(s, acc) ==
    IF s = <<>> THEN <<acc>>
    ELSE IF Head(s) = "/" THEN <<acc>> \o split(Tail(s), <<>>)
    ELSE split(Tail(s), Append(acc, Head(s)))

\* '/'.join
RECURSIVE join(_)
join(comps) ==
    IF comps = <<>> THEN <<>>
    ELSE IF Len(comps) = 1 THEN comps[1]
    ELSE comps[1] \o <<"/">> \o join(Tail(comps))

DotDot == <<".", ".">>

\* the loop of posixpath.normpath over the components, new_comps so far
RECURSIVE normcomps(_, _, _)
normcomps(comps, new_comps, initial_slashes) ==
    IF comps = <<>> THEN new_comps
    ELSE LET comp == Head(comps)
         IN  IF comp = <<>> \/ comp = <<".">>
             THEN normcomps(Tail(comps), new_comps, initial_slashes)
             ELSE IF \/ comp # DotDot
                     \/ (initial_slashes = 0 /\ new_comps = <<>>)
                     \/ (new_comps # <<>> /\ new_comps[Len(new_comps)] = DotDot)
             THEN normcomps(Tail(comps), Append(new_comps, comp), initial_slashes)
             ELSE IF new_comps # <<>>
             THEN normcomps(Tail(comps), SubSeq(new_comps, 1, Len(new_comps) - 1),
                            initial_slashes)
             ELSE normcomps(Tail(comps), new_comps, initial_slashes)

\* os.path.normpath (posixpath); os.path.normcase is the identity there
normpath(path) ==
    IF path = <<>> THEN <<".">>
    ELSE LET initial_slashes ==
                 IF ~startswith(path, <<"/">>) THEN 0
                 ELSE IF startswith(path, <<"/", "/">>) /\ ~startswith(path, <<"/", "/", "/">>)
                 THEN 2 ELSE 1
             joined == join(normcomps(split(path, <<>>), <<>>, initial_slashes))
             result == (IF initial_slashes = 0 THEN <<>>
                        ELSE IF initial_slashes = 1 THEN <<"/">> ELSE <<"/", "/">>) \o joined
         IN  IF result = <<>> THEN <<".">> ELSE result

\* str.rstrip('/')
RECURSIVE rstrip(_)
rstrip(h) == IF h # <<>> /\ h[Len(h)] = "/" THEN rstrip(SubSeq(h, 1, Len(h) - 1)) ELSE h

\* os.path.split: the part before the last slash, without trailing slashes unless
\* it is the root, and the part after it
path_split(p) ==
    LET slashes == {i \in 1..Len(p) : p[i] = "/"}
        i == IF slashes = {} THEN 0 ELSE CHOOSE k \in slashes : \A j \in slashes : j <= k
        head == SubSeq(p, 1, i)
    IN  [head |-> IF rstrip(head) = <<>> THEN head ELSE rstrip(head),
         tail |-> SubSeq(p, i + 1, Len(p))]

\* os.path.join of two strings
path_join(a, b) ==
    IF startswith(b, <<"/">>) THEN b
    ELSE IF a = <<>> \/ endswith_slash(a) THEN a \o b
    ELSE a \o <<"/">> \o b

\* an entry of the file system: a directory, or a file and its content
Entry(p, c) == [path |-> p, content |-> c]
Contents == {"dir", "x", "y", "empty"}

\* os.path.join(self._working_dir, ...) with the default working directory "."
world_path == <<".", "/", "W">>
world_new_path == <<".", "/", "N">>
world_old_path == <<".", "/", "O">>

\* the components a path string resolves to, from the working directory
resolve(path) == normcomps(split(path, <<>>), <<>>, 0)

\* p is q or an ancestor of q
under(p, q) == Len(p) <= Len(q) /\ SubSeq(q, 1, Len(p)) = p
\* the working directory and its ancestors
above(p) == \A i \in 1..Len(p) : p[i] = DotDot

\* os.path.exists, os.path.isdir
exists(f, p) == above(p) \/ \E e \in f : e.path = p
isdir(f, p) == above(p) \/ Entry(p, "dir") \in f

\* shutil.rmtree
rmtree(f, p) == {e \in f : ~under(p, e.path)}

\* os.rename of the directory p to q, which does not exist
rename(f, p, q) ==
    {e \in f : ~under(p, e.path)} \cup
    {Entry(q \o SubSeq(e.path, Len(p) + 1, Len(e.path)), e.content) : e \in {d \in f : under(p, d.path)}}

\* os.makedirs(path, exist_ok=True), from the k-th component of path on: every
\* prefix of the path is made a directory; st.ok is FALSE once mkdir has raised
RECURSIVE makedirs(_, _, _)
makedirs(st, comps, k) ==
    IF ~st.ok \/ k > Len(comps) THEN st
    ELSE LET p == normcomps(SubSeq(comps, 1, k), <<>>, 0)
         IN  IF isdir(st.fs, p) THEN makedirs(st, comps, k + 1)
             ELSE IF exists(st.fs, p) THEN [st EXCEPT !.ok = FALSE]
             ELSE makedirs([st EXCEPT !.fs = @ \cup {Entry(p, "dir")}], comps, k + 1)

\* open(out_path, 'wb') and archive.extract_into(file)
write_file(st, p, c) ==
    IF ~st.ok THEN st
    ELSE IF isdir(st.fs, p) THEN [st EXCEPT !.ok = FALSE]
    ELSE [st EXCEPT !.fs = {e \in @ : e.path # p} \cup {Entry(p, c)}]

\* the components of a path string that name something: not "" and not "."
named(path) == SelectSeq(split(path, <<>>), LAMBDA comp : comp # <<>> /\ comp # <<".">>)

\* ArchiveReader.extract_into: the bytes of the current member, none for a
\* directory entry
extract_into(member) == IF member.content = "dir" THEN "empty" ELSE member.content

\* world_extract from os.path.join(world_new_path, tail) on: the assertion, then
\* the directory or the file is made
extract_to(st, member, out_path) ==
    IF ~startswith(out_path, world_new_path) THEN [st EXCEPT !.ok = FALSE]
    ELSE IF endswith_slash(member.name) THEN makedirs(st, named(out_path), 1)
    ELSE write_file(makedirs(st, named(path_split(out_path).head), 1),
                    resolve(out_path), extract_into(member))

\* world_extract on a member whose normalised name is m: it is skipped unless m
\* starts with dirname, and tail is what follows dirname, without slashes in front
extract_normalised(st, member, m, dirname) ==
    IF ~startswith(m, dirname) THEN st
    ELSE extract_to(st, member,
                    path_join(world_new_path,
                              lstrip(IF dirname # <<>> THEN partition_tail(m, dirname) ELSE m)))

\* the body of the loop of world_extract for one member of the archive; nothing
\* is done once a member has raised
extract_member(st, member, dirname) ==
    IF ~st.ok THEN st ELSE extract_normalised(st, member, normpath(member.name), dirname)

\* the loop of world_extract over the members of the archive
RECURSIVE extract_members(_, _, _)
extract_members(st, members, dirname) ==
    IF members = <<>> THEN st
    ELSE extract_members(extract_member(st, Head(members), dirname), Tail(members), dirname)

\* world_extract: a stale world_new is removed before the members are read
remove_new(f) ==
    IF exists(f, resolve(world_new_path)) THEN rmtree(f, resolve(world_new_path)) ELSE f

\* world_extract: a world_old that exists is removed
remove_old(f) ==
    IF exists(f, resolve(world_old_path)) THEN rmtree(f, resolve(world_old_path)) ELSE f

\* world_extract: a world that exists is renamed to world_old
move_world(f) ==
    IF exists(f, resolve(world_path))
    THEN rename(f, resolve(world_path), resolve(world_old_path)) ELSE f

\* world_extract: world_new is renamed to world; os.rename raises without it
publish(f) ==
    IF ~exists(f, resolve(world_new_path)) THEN [fs |-> f, result |-> "error"]
    ELSE [fs |-> rename(f, resolve(world_new_path), resolve(world_path)), result |-> "ok"]

\* world_extract after the loop, which left st
swap(st) ==
    IF ~st.ok THEN [fs |-> st.fs, result |-> "error"]
    ELSE publish(move_world(remove_old(st.fs)))

\* dirname as world_extract uses it
normalised_dirname(dirname) ==
    IF normpath(dirname) = <<".">> THEN <<>> ELSE normpath(dirname)

\* world_extract without its status check
world_extract_on_unchecked(f, members, dirname) ==
    swap(extract_members([fs |-> remove_new(f), ok |-> TRUE], members,
                         normalised_dirname(dirname)))

\* ServerWrapper.world_extract(archive, dirname) on the file system f: the file
\* system it leaves and whether it returned ("ok"), returned without doing
\* anything ("noop") or raised ("error")
world_extract_on(f, members, dirname) ==
    IF status # "stopped" THEN [fs |-> f, result |-> "noop"]
    ELSE swap(extract_members([fs |-> remove_new(f), ok |-> TRUE], members,
                              normalised_dirname(dirname)))

\* ArchiveReader.find: the directory of the first member named filename
RECURSIVE find(_, _)
find(members, filename) ==
    IF members = <<>> THEN [found |-> FALSE, dirname |-> <<>>]
    ELSE LET parts == path_split(normpath(Head(members).name))
         IN  IF parts.tail = filename THEN [found |-> TRUE, dirname |-> parts.head]
             ELSE find(Tail(members), filename)

\* the signatures ArchiveReader.new knows
ZipSignature == <<80, 75, 3, 4>>
GzipSignature == <<31, 139, 8>>

\* new that looks at the first two bytes only
new_two_bytes(file) ==
    LET sig == SubSeq(file, 1, Min(4, Len(file)))
    IN  IF SubSeq(sig, 1, Min(2, Len(sig))) = SubSeq(ZipSignature, 1, 2) THEN "ZipReader"
        ELSE IF SubSeq(sig, 1, Min(2, Len(sig))) = SubSeq(GzipSignature, 1, 2) THEN "TarReader"
        ELSE "None"

\* ArchiveReader.new(file): file.read(4), then the reader class or None
new(file) ==
    LET sig == SubSeq(file, 1, Min(4, Len(file)))
    IN  IF sig = ZipSignature THEN "ZipReader"
        ELSE IF SubSeq(sig, 1, Min(3, Len(sig))) = GzipSignature THEN "TarReader"
        ELSE "None"

\* the name of level.dat, and the basename handle_get_world_archive gives its archive
level_dat == <<"L">>
minecraft_world == <<"M">>

\* the members an uploaded archive is made of, as its reader yields them: the
\* name, with a slash at the end for a directory, and the content
Members ==
    { [name |-> <<"L">>, content |-> "x"],
      [name |-> <<"a", "/">>, content |-> "dir"],
      [name |-> <<"a", "/", "L">>, content |-> "y"],
      [name |-> <<"a", "b", "/", "f">>, content |-> "x"],
      [name |-> <<"f">>, content |-> "y"],
      [name |-> <<"f", "/", "L">>, content |-> "x"],
      [name |-> <<".", ".", "/", "W", "/", "f">>, content |-> "y"],
      [name |-> <<".", ".", "/", ".", ".", "/", "e">>, content |-> "x"] }

\* largest number of members of an uploaded archive
MaxMembers == 2

\* the sequences of at most n different elements of S
RECURSIVE Arrangements(_, _)
Arrangements(S, n) ==
    IF n = 0 THEN {<<>>}
    ELSE LET shorter == Arrangements(S, n - 1)
         IN  shorter \cup
             UNION {{Append(q, x) : x \in S \ {q[i] : i \in 1..Len(q)}} :
                    q \in {t \in shorter : Len(t) = n - 1}}

\* the first bytes of an upload: the signatures, and files that are no archive
Heads ==
    { ZipSignature, GzipSignature \o <<0>>, GzipSignature \o <<8>>, GzipSignature,
      <<0, 0, 0, 0>>, <<80, 75, 5, 6>>, <<80, 75, 3>>, <<31, 139, 0, 8>>, <<>> }

\* the archives a client posts: an archive of one of the two formats with its
\* members, or a file that is no archive
ClientUploads ==
    { [file |-> h, members |-> q, source |-> "client", tree |-> {}] :
        h \in {ZipSignature, GzipSignature \o <<0>>}, q \in Arrangements(Members, MaxMembers) }
    \cup { [file |-> h, members |-> <<>>, source |-> "client", tree |-> {}] : h \in Heads }

\* the world directories a run of Minecraft leaves, by the paths in them
WorldTrees ==
    LET a == <<"a">>
        b == <<"b">>
    IN  { {Entry(<<level_dat>>, "x")} \cup t :
            t \in { {}, {Entry(<<a>>, "dir")}, {Entry(<< <<"f">> >>, "y")},
                    {Entry(<<a>>, "dir"), Entry(<<a, level_dat>>, "y")},
                    {Entry(<<a>>, "dir"), Entry(<<a, b>>, "dir")},
                    {Entry(<<a>>, "dir"), Entry(<<a, level_dat>>, "y"), Entry(<<a, b>>, "dir")},
                    {Entry(<< <<"f">> >>, "y"), Entry(<<a>>, "dir"), Entry(<<a, level_dat>>, "y"),
                     Entry(<<a, b>>, "dir")} } }

\* the directory at path p holding tree t
planted(p, t) == {Entry(p, "dir")} \cup {Entry(p \o e.path, e.content) : e \in t}

\* the tree held by the directory at path p
tree_at(f, p) ==
    {Entry(SubSeq(e.path, Len(p) + 1, Len(e.path)), e.content) :
        e \in {d \in f : under(p, d.path) /\ d.path # p}}

\* the working directory before an import: a world or none, what an earlier
\* import left as world_old, what a failed one left as world_new
InitialFs ==
    { w \cup o \cup n :
        w \in {{}} \cup {planted(resolve(world_path), t) : t \in WorldTrees},
        o \in {{}, planted(resolve(world_old_path), {Entry(<< <<"f">> >>, "y")})},
        n \in {{}, planted(resolve(world_new_path), {Entry(<< <<"f">> >>, "x")})} }

\* the orders in which os.listdir can give the elements of S
Orders(S) == {q \in [1..Cardinality(S) -> S] : \A i, j \in 1..Cardinality(S) : q[i] = q[j] => i = j}

\* os.walk from directory d, as world_files reads it: the paths of the files of d
\* and then of its directories, then the same for each of these directories
RECURSIVE walk(_, _)
RECURSIVE walk_each(_, _)
walk(f, d) ==
    LET inside == {e \in f : Len(e.path) = Len(d) + 1 /\ under(d, e.path)}
        filenames == {e.path : e \in {c \in inside : c.content # "dir"}}
        dirnames == {e.path : e \in {c \in inside : c.content = "dir"}}
    IN  UNION {{files \o dirs \o rest : rest \in walk_each(f, dirs)} :
               <<files, dirs>> \in Orders(filenames) \X Orders(dirnames)}
\* the walks of the directories dirs, one after the other
walk_each(f, dirs) ==
    IF dirs = <<>> THEN {<<>>}
    ELSE {first \o rest : first \in walk(f, Head(dirs)), rest \in walk_each(f, Tail(dirs))}

\* ServerWrapper.world_files: the listings it can yield, each element the path of
\* an entry and the string os.path.relpath makes of it
world_files_of(f) ==
    IF status # "stopped" THEN {<<>>}
    ELSE {[i \in 1..Len(listing) |->
              [filename |-> listing[i],
               arcname |-> join(SubSeq(listing[i], Len(resolve(world_path)) + 1, Len(listing[i])))]] :
          listing \in walk(f, resolve(world_path))}

\* TarWriter.add: the name under which the entry is stored
TarWriter_add(basename, arcname) ==
    IF basename # <<>> THEN path_join(basename, arcname) ELSE arcname

\* ZipWriter.add: the name under which the entry is stored
ZipWriter_add(basename, arcname) == arcname

\* readers that give a directory by its stored name, no slash added
reader_next_bare(f, name, filename) ==
    [name |-> name, content |-> (CHOOSE e \in f : e.path = filename).content]

\* TarReader.__next__ and ZipReader.__next__ on an entry stored as name: both give
\* a directory with a slash at the end (zipstream stores it so, TarReader adds it)
reader_next(f, name, filename) ==
    [name |-> IF isdir(f, filename) THEN name \o <<"/">> ELSE name,
     content |-> (CHOOSE e \in f : e.path = filename).content]

\* the archive handle_get_world_archive streams for one listing of the world
archive_of(f, format, listing) ==
    [file |-> IF format = "tar" THEN GzipSignature \o <<0>>
              ELSE IF listing = <<>> THEN <<80, 75, 5, 6>> ELSE ZipSignature,
     members |-> [i \in 1..Len(listing) |->
                     reader_next(f, IF format = "tar"
                                    THEN TarWriter_add(minecraft_world, listing[i].arcname)
                                    ELSE ZipWriter_add(minecraft_world, listing[i].arcname),
                                 listing[i].filename)],
     source |-> "export",
     tree |-> tree_at(f, resolve(world_path))]

\* handle_post_world_archive between request.post() and release_write, on the
\* archive u: reader.find raises when new gave no reader, the readers raise on a
\* file too short to be an archive, and normpath raises on the None of find
import_archive(f, u) ==
    LET found == find(u.members, level_dat)
    IN  IF new(u.file) = "None" \/ Len(u.file) < 4 \/ ~found.found
        THEN [fs |-> f, result |-> "error"]
        ELSE world_extract_on(f, u.members, found.dirname)

\* the strings and the file systems of the model
Chars == {"L", "M", "W", "N", "O", "a", "b", "e", "f", ".", "/"}
WorldTypeOK ==
    /\ \A e \in fs : e.path \in Seq(Seq(Chars)) /\ e.content \in Contents
    /\ \A e \in fs : \A k \in 1..(Len(e.path) - 1) : isdir(fs, SubSeq(e.path, 1, k))
    /\ upload.file \in Seq(0..255)
    /\ upload.members \in Seq([name : Seq(Chars), content : Contents])
    /\ upload.source \in {"none", "client", "export", "world_files"}
    /\ outcome.op \in {"none", "export", "import", "world_extract", "world_files"}
    /\ outcome.result \in {"none", "ok", "noop", "error"}
    /\ outcome.reader \in {"none", "ZipReader", "TarReader", "None"}

\* a step on the world directories, which leaves the server as it is: stopped,
\* no permit held
ServerAside ==
    /\ UNCHANGED serverVars /\ UNCHANGED relayVars
    /\ UNCHANGED rosterVars /\ UNCHANGED ioVars

\* handle_get_world_archive from acquire_read to release_read, the world not
\* changing meanwhile: the client receives the archive of the world
ExportWorld(format) ==
    /\ status = "stopped"
    /\ \E listing \in world_files_of(fs) : upload' = archive_of(fs, format, listing)
    /\ outcome' = [NoOutcome EXCEPT !.op = "export", !.result = "ok"]
    /\ UNCHANGED fs
    /\ ServerAside

\* handle_post_world_archive from acquire_write to release_write, posted u
ImportWorld(u) ==
    /\ status = "stopped"
    /\ LET done == import_archive(fs, u)
       IN  /\ fs' = done.fs
           /\ outcome' = [op |-> "import", result |-> done.result, reader |-> new(u.file),
                          dirname |-> find(u.members, level_dat).dirname]
    /\ upload' = u
    /\ ServerAside

\* Each behaviour follows one archive of a client, posted or handed to
\* world_extract in a working directory of InitialFs, and after it any number of
\* exports and imports of the exported archive.
Untouched == outcome = NoOutcome

\* a client posts an archive of its own
ImportClientArchive == Untouched /\ \E u \in ClientUploads : ImportWorld(u)

\* a client posts back the archive the last export gave it
ImportExportedArchive == upload.source = "export" /\ ImportWorld(upload)

\* the directories a caller of world_extract names
Dirnames == {<<>>, <<".">>, <<"a">>, <<"b">>}

\* ServerWrapper.world_extract(archive, dirname), called on the members of u
WorldExtract(u, dirname) ==
    /\ Untouched
    /\ LET done == world_extract_on(fs, u.members, dirname)
       IN  /\ fs' = done.fs
           /\ outcome' = [op |-> "world_extract", result |-> done.result,
                          reader |-> "none", dirname |-> dirname]
    /\ upload' = u
    /\ ServerAside

ArchiveInit ==
    /\ ServerInit
    /\ fs \in InitialFs
    /\ upload = NoUpload
    /\ outcome = NoOutcome

ArchiveNext ==
    \/ \E format \in {"tar", "zip"} : ExportWorld(format)
    \/ ImportClientArchive
    \/ ImportExportedArchive
    \/ \E u \in ClientUploads, dirname \in Dirnames : WorldExtract(u, dirname)

ArchiveSpec == ArchiveInit /\ [][ArchiveNext]_vars

\* the entries a call of world_files yields, by arcname
yielded(f, listing) ==
    [i \in 1..Len(listing) |->
        [name |-> listing[i].arcname,
         content |-> (CHOOSE e \in f : e.path = listing[i].filename).content]]

\* ServerWrapper.world_files() called and read to its end, whatever the status
WorldFiles ==
    /\ \E listing \in world_files_of(fs) :
          upload' = [NoUpload EXCEPT !.members = yielded(fs, listing),
                                     !.source = "world_files"]
    /\ outcome' = [NoOutcome EXCEPT !.op = "world_files", !.result = "ok"]
    /\ UNCHANGED fs
    /\ ServerAside

\* the working directories and the archives of CallSpec
CallFs ==
    { planted(resolve(world_path), {Entry(<<level_dat>>, "x")}),
      planted(resolve(world_path),
              {Entry(<<level_dat>>, "x"), Entry(<< <<"a">> >>, "dir")})
         \cup planted(resolve(world_new_path), {Entry(<< <<"f">> >>, "x")}) }
CallUploads ==
    { [file |-> ZipSignature, members |-> q, source |-> "client", tree |-> {}] :
        q \in { << [name |-> <<"L">>, content |-> "y"] >>,
                << [name |-> <<"a", "/">>, content |-> "dir"],
                   [name |-> <<"a", "/", "L">>, content |-> "y"] >> } }

CallInit ==
    /\ ServerInit
    /\ fs \in CallFs
    /\ upload = NoUpload
    /\ outcome = NoOutcome

\* The server through its runs with one export, one import and one start or stop
\* request at a time, and callers of world_files and world_extract that do not
\* look at the status first.
CallNext ==
    \/ AppRun
    \/ HandleGetWorldArchive(1)
    \/ HandlePostWorldArchive(2)
    \/ HandlePostServerStart(3)
    \/ HandlePostServerStop(3)
    \/ \E r \in Req : AcquireWriteResume(r)
    \/ \E r \in Req : SpawnDone(r)
    \/ RequestPostDone(2)
    \/ AcquireReadResume(1)
    \/ ExportStep(1)
    \/ ExportEof(1)
    \/ ProcessExit
    \/ CleanUpAfterStop
    \/ HandleLogLine("ready")
    \/ WorldFiles
    \/ \E u \in CallUploads, dirname \in {<<>>, <<"a">>} : WorldExtract(u, dirname)

CallSpec == CallInit /\ [][CallNext]_vars

----------------------------------------------------------------------------
\* requests that hold the write permit, and the running server that holds the one
\* start() acquired
WriteHolders == {r \in Req : pc[r] \in {"spawning", "post"}}
ServerHolds == process # "none"
\* requests suspended inside acquire_write or acquire_read
AcquireWaits == {"aw_lock", "aw_wait", "aw_reacq", "aw_wlock", "ar_lock"}
\* exports that hold a read permit
ReadHolders == {r \in Req : pc[r] \in {"streaming", "eof", "rr_lock"}}
\* a start() suspended in acquire_write
StartPending(r) == kind[r] = "start" /\ pc[r] \in {"aw_lock", "aw_wait", "aw_reacq", "aw_wlock"}
\* this step returns to request r, which ran operation k
Returns(r, k) == response' # NoResponse /\ response'.req = r /\ response'.op = k
\* this step is the arrival of request r for operation k
Arrives(r, k) == pc[r] = "idle" /\ (kind'[r] = k \/ Returns(r, k))

\* C1: the writer-held flag is set only while the reader count is 0, acquire_write
\* returns only with the reader count at 0, and the count does not grow between
\* the return of acquire_write and the matching release_write
WriterExcludesReaders ==
    /\ world_write_lock => world_reading = 0
    /\ [][/\ world_write_lock' => world_reading' = 0
          /\ (~world_write_lock /\ world_write_lock') => world_reading = 0
          /\ \A r \in Req : (pc[r] \notin {"spawning", "post"} /\ pc'[r] \in {"spawning", "post"})
                               => world_reading = 0 /\ world_reading' = 0
          /\ (world_write_lock /\ world_write_lock') => world_reading' <= world_reading
         ]_vars

\* an import holds the write permit with no reader left, and a new export waits
\* for the gate
WriterExcludesReadersWitness ==
    \E w, r \in HttpReq :
        /\ kind[w] = "import" /\ pc[w] = "post"
        /\ kind[r] = "export" /\ pc[r] = "ar_lock"
        /\ world_write_lock /\ world_reading = 0

\* C2: the child process is never live while an export reads world files under a
\* read permit or an import extracts or swaps world directories under a write
\* permit; start() holds the write permit and the gate from before the spawn
\* until the exit of the process has been observed
NoWorldAccessWhileServerLive ==
    /\ process = "none"
    /\ [][/\ \A r \in Req : pc'[r] = "streaming" => process' # "live"
          /\ \A r \in Req : (pc[r] \in {"idle", "ar_lock"} /\ pc'[r] = "streaming")
                               => process # "live"
          /\ \A r \in Req : (pc[r] = "post" /\ Returns(r, "import")
                               /\ response'.result \in {"ok", "extract_error"})
                               => process # "live" /\ process' # "live"
          /\ \A r \in Req : pc'[r] = "spawning" => world_write_lock' /\ world_read_cond'
          /\ process' # "none" => world_write_lock' /\ world_read_cond'
         ]_vars

\* the server runs while an export that passed the handler's status check is kept
\* waiting for the gate
NoWorldAccessWhileServerLiveWitness ==
    /\ process = "live" /\ status = "running"
    /\ \E e \in HttpReq : kind[e] = "export" /\ pc[e] = "ar_lock"

\* C3: at most one caller holds the write permit at any time, and while it is held
\* no other acquire_write or acquire_read call completes
WritersExclusive ==
    /\ WriteHolders = {}
    /\ [][/\ Cardinality(WriteHolders') + (IF ServerHolds' THEN 1 ELSE 0) <= 1
          /\ (WriteHolders' # {} \/ ServerHolds') => world_write_lock' /\ world_read_cond'
          /\ (world_write_lock /\ world_write_lock') =>
                /\ world_reading' = world_reading
                /\ \A r \in Req :
                      /\ pc[r] \in AcquireWaits => pc'[r] \in AcquireWaits
                      /\ (pc[r] = "idle" /\ pc'[r] # "idle") => pc'[r] \in AcquireWaits
                      /\ \A k \in {"start", "export", "import"} :
                            (pc[r] = "idle" /\ Returns(r, k)) => response'.result = "405"
         ]_vars

\* an import holds the write permit while a start and an export wait for the gate
WritersExclusiveWitness ==
    \E i, s, e \in HttpReq :
        /\ kind[i] = "import" /\ pc[i] = "post"
        /\ kind[s] = "start" /\ pc[s] = "aw_lock"
        /\ kind[e] = "export" /\ pc[e] = "ar_lock"

\* readers hold permits at the same time
ReadersShare == world_reading > 1 /\ Cardinality(ReadHolders) > 1

\* C4: once an acquire_write call has taken the gate and waits for the reader
\* count to reach zero, no new acquire_read call completes (the reader count does
\* not increase) until that writer has acquired and released the write permit
WriterPriority ==
    [][(\E w \in Req : pc[w] \in {"aw_wait", "aw_reacq"} /\ pc'[w] \in {"aw_wait", "aw_reacq"})
          => world_reading' <= world_reading]_vars

\* C5: a start request made while status is not Stopped, or while an earlier
\* accepted start() is still waiting for the write permit, is rejected and not
\* queued, and leaves status, the process handle and the lock state unchanged
StartRejectedNotQueued ==
    [][\A r \in HttpReq :
          (/\ Arrives(r, "start")
           /\ (status # "stopped" \/ \E s \in Req \ {r} : StartPending(s)))
          => /\ pc'[r] = "idle" /\ Returns(r, "start") /\ response'.result = "405"
             /\ UNCHANGED <<status, process, world_reading, world_read_cond,
                            world_write_lock>>]_vars

\* C6: a stop request made while status is not Running is rejected with no side
\* effects: status stays as it was (not Stopping) and nothing is written to stdin
StopRejectedOutsideRunning ==
    [][\A r \in HttpReq :
          (Arrives(r, "stop") /\ status # "running")
          => /\ pc'[r] = "idle" /\ Returns(r, "stop") /\ response'.result = "405"
             /\ UNCHANGED <<status, stdin, process, world_reading, world_read_cond,
                            world_write_lock, relay_tasks, cleanup_task>>]_vars

\* a stop request has just been rejected while the server starts: status is still
\* Starting and nothing was written to the child's stdin
StopRejectedOutsideRunningWitness ==
    /\ response.op = "stop" /\ response.result = "405"
    /\ status = "starting" /\ process = "live" /\ stdin = <<>>

CleanupOnExit ==
    /\ [][(process = "exited" /\ process' # "exited")
             => /\ status' = "stopped" /\ process' = "none"
                /\ relay_tasks = "running" /\ relay_tasks' = "cancelled"
                /\ cleanup_task /\ ~cleanup_task'
                /\ world_write_lock /\ world_read_cond
                /\ ~world_write_lock' /\ ~world_read_cond']_vars
    /\ [][(process # "none" /\ process' # "none")
             => world_write_lock' /\ world_read_cond' /\ cleanup_task']_vars
    /\ (process = "exited") ~> (process = "none" /\ status = "stopped" /\ ~world_read_cond)

\* the server was stopped, cleanup has run, and a request that waited for the gate
\* can now take it
CleanupOnExitWitness ==
    /\ status = "stopped" /\ process = "none" /\ relay_tasks = "cancelled"
    /\ stdin = << <<"stop", "\n">> >>
    /\ ~world_write_lock /\ ~world_read_cond
    /\ \E r \in HttpReq : pc[r] \in {"aw_lock", "ar_lock"}

\* C9: an operation that was granted a permit has released it when it ends, however
\* it ends (a start that spawned the server hands its permit to the cleanup)
PermitsReleasedOnExit ==
    [][\A r \in HttpReq :
          /\ (pc[r] # "idle" /\ Returns(r, "import")) => ~world_write_lock' /\ ~world_read_cond'
          /\ (Returns(r, "start") /\ response'.result \notin {"405", "ok"})
                => ~world_write_lock' /\ ~world_read_cond'
          /\ (Returns(r, "export") /\ response'.result # "405")
                => world_reading' = Cardinality(ReadHolders')]_vars

\* C10: the reader count is the number of exports between the grant of their read
\* permit and the end of their handler: an export counts for 1 while it streams
\* and for 0 once it has ended, however it ended
ReaderCountExact == world_reading = Cardinality(ReadHolders)

\* an export has just been ended by an error while streaming, and the count is
\* back to the one export that still streams
ReaderCountExactWitness ==
    /\ response.op = "export" /\ response.result = "stream_error"
    /\ pc[response.req] = "idle"
    /\ \E e \in HttpReq : kind[e] = "export" /\ pc[e] = "streaming"
    /\ world_reading = 1

----------------------------------------------------------------------------
\* the handler of the outstanding call c, if it is in the registry
HandlerOf(c) == {i \in 1..Len(log_events) : log_events[i].caller = c}
\* c waits for a response and has had none yet
Awaiting(c) == cmd[c].pc = "waiting" /\ cmd[c].sem = 0
\* this step is the dispatch of the parsed message msg
Dispatches(msg) == dispatch'.line = msg /\ msg \notin {"none", "", "garbage"}
\* this step is a call of send_command_and_wait by c
Calls(c) == cmd[c].pc = "idle" /\ (cmd'[c].pc = "waiting" \/ returned'.caller = c)

\* the first half of C11: from the write of its line until its response, the
\* handler of a call is in the registry
HandlerInRegistryAtWrite ==
    /\ \A c \in Caller : Awaiting(c) => HandlerOf(c) # {}
    /\ [][\A c \in Caller :
             (Calls(c) /\ stdin' # stdin) => \E i \in 1..Len(log_events') : log_events'[i].caller = c
         ]_vars

\* C11: the handler of send_command_and_wait is in the registry when the line is
\* written, so that a matching message dispatched at any point after the write is
\* delivered to the caller
HandlerRegisteredBeforeWrite ==
    /\ \A c \in Caller : Awaiting(c) => HandlerOf(c) # {}
    /\ [][/\ \A c \in Caller :
                (Calls(c) /\ stdin' # stdin)
                   => \E i \in 1..Len(log_events') : log_events'[i].caller = c
          /\ \A c \in Caller, msg \in Lines :
                (/\ Awaiting(c) /\ Dispatches(msg)
                 /\ \E i \in HandlerOf(c) : match(log_events[i].pattern, msg))
                   => cmd'[c].mm = msg /\ cmd'[c].sem = 1
         ]_vars

\* C12: send_command_and_wait returns the first message dispatched after the call
\* that matches its pattern: the call starts with no match, takes the first
\* matching message dispatched while it waits, whatever else is outstanding, keeps
\* it whatever is dispatched later, and returns it
FirstMatchReturned ==
    [][\A c \in Caller :
          /\ Calls(c) /\ cmd'[c].pc = "waiting" => cmd'[c].mm = "none" /\ cmd'[c].sem = 0
          /\ \A msg \in Lines :
                (Awaiting(c) /\ Dispatches(msg)) =>
                    IF \E i \in HandlerOf(c) : match(log_events[i].pattern, msg)
                    THEN cmd'[c].mm = msg /\ cmd'[c].sem = 1
                    ELSE cmd'[c] = cmd[c]
          /\ (cmd[c].pc = "waiting" /\ cmd[c].sem = 1) =>
                \/ cmd'[c] = cmd[c]
                \/ cmd'[c] = NoCall /\ returned' = [caller |-> c, value |-> cmd[c].mm]
      ]_vars

\* C13: the dispatch of a message invokes, in registration order and once each,
\* every handler that is registered when the dispatch begins and whose pattern
\* matches the message, also when a handler unregisters itself while it runs
DispatchInvokesAllMatching ==
    [][\A msg \in Lines :
          Dispatches(msg) =>
             dispatch'.invoked = SelectSeq(log_events, LAMBDA e : match(e.pattern, msg))
      ]_vars

\* C14: a parsed message is emitted as a log record if and only if no matching
\* handler returned a true suppress flag
LoggedUnlessSuppressed ==
    [][\A msg \in Lines :
          Dispatches(msg) => (dispatch'.record = msg <=> ~dispatch'.suppress)
      ]_vars

\* the last step was an import through handle_post_world_archive
Imported == outcome.op = "import"

\* C19: an upload whose first four bytes are 50 4B 03 04 is read as a zip, one
\* whose first three bytes are 1F 8B 08 as a gzipped tar, whatever the fourth, and
\* for every other upload, all zeros and files shorter than four bytes among
\* them, there is no reader and the import ends in an error
SniffsFirstFourBytes ==
    Imported =>
        IF startswith(upload.file, ZipSignature) THEN outcome.reader = "ZipReader"
        ELSE IF startswith(upload.file, GzipSignature) THEN outcome.reader = "TarReader"
        ELSE outcome.reader = "None" /\ outcome.result = "error"

\* a file of three bytes, the first three of the zip signature, was posted
SniffsFirstFourBytesWitness ==
    /\ Imported
    /\ upload.file = <<80, 75, 3>>
    /\ outcome.reader = "None" /\ outcome.result = "error"

\* the step is an import through handle_post_world_archive
Imports == outcome'.op = "import"

\* the entries of f that are not in world_new
outside_world_new(f) == {e \in f : ~under(resolve(world_new_path), e.path)}

\* the path member would be written to, dirname stripped, is not in world_new
escapes(member, dirname) ==
    LET m == normpath(member.name)
        tail == lstrip(IF dirname # <<>> THEN partition_tail(m, dirname) ELSE m)
    IN  /\ startswith(m, dirname)
        /\ ~under(resolve(world_new_path), resolve(path_join(world_new_path, tail)))

\* the archive of the step has a member that escapes, the directory of level.dat
\* stripped
EscapingImport ==
    /\ Imports
    /\ \E i \in 1..Len(upload'.members) :
           escapes(upload'.members[i], normalised_dirname(outcome'.dirname))

\* C15: an import of an archive with an entry whose path, the prefix stripped,
\* is outside world_new ends in an error, and leaves everything outside world_new,
\* the world directory included, as it was
EscapingEntryRejected ==
    [][EscapingImport =>
           /\ outcome'.result = "error"
           /\ outside_world_new(fs') = outside_world_new(fs)]_vars

\* the step is an import, through the handler or by a call of world_extract
Extracts == outcome'.op \in {"import", "world_extract"}

\* the world directory and what it holds
world_of(f) == {e \in f : under(resolve(world_path), e.path)}

\* C16: an import that fails, on an entry or in the swap, leaves the world
\* directory in place with what it held before
FailedImportKeepsWorld ==
    [][(Extracts /\ outcome'.result = "error") => world_of(fs') = world_of(fs)]_vars

\* the tree the members of an archive make in a world_new of its own
extracted_tree(members, dirname) ==
    tree_at(extract_members([fs |-> {}, ok |-> TRUE], members, normalised_dirname(dirname)).fs,
            resolve(world_new_path))

\* C17: after a successful import world holds the tree extracted from the
\* archive and nothing of a stale world_new, world_old holds what world held
\* before and nothing of an earlier world_old, and there is no world_new
SuccessfulImportSwaps ==
    [][(Extracts /\ outcome'.result = "ok") =>
           /\ exists(fs', resolve(world_path))
           /\ tree_at(fs', resolve(world_path)) = extracted_tree(upload'.members, outcome'.dirname)
           /\ exists(fs', resolve(world_old_path)) = exists(fs, resolve(world_path))
           /\ tree_at(fs', resolve(world_old_path)) = tree_at(fs, resolve(world_path))
           /\ ~exists(fs', resolve(world_new_path))]_vars

\* the step imports the archive the last export made
ImportsExported == Imports /\ upload'.source = "export" /\ upload' = upload

\* level.dat is a file in the root directory of tree
level_dat_in_root(tree) == \E e \in tree : e.path = <<level_dat>> /\ e.content # "dir"

\* C18: a world with level.dat in its root directory, exported as tar or zip in
\* any order os.walk can list it and imported from that archive, is the world it
\* was: the same paths of directories and files, the same contents
RoundTrip ==
    [][(ImportsExported /\ level_dat_in_root(upload'.tree)) =>
           /\ outcome'.result = "ok"
           /\ exists(fs', resolve(world_path))
           /\ tree_at(fs', resolve(world_path)) = upload'.tree]_vars

\* a tar archive of a world with a file listed before level.dat, a directory
\* with a level.dat of its own and an empty directory has been imported
RoundTripWitness ==
    /\ Imported /\ outcome.result = "ok"
    /\ upload.source = "export" /\ outcome.reader = "TarReader"
    /\ upload.members[1].name = path_join(minecraft_world, <<"f">>)
    /\ {Entry(<<level_dat>>, "x"), Entry(<< <<"a">>, level_dat >>, "y"),
        Entry(<< <<"a">>, <<"b">> >>, "dir")} \subseteq upload.tree
    /\ tree_at(fs, resolve(world_path)) = upload.tree

\* C20: send_command, called by stop or by send_command_and_wait, fails and writes
\* nothing when there is no process, and otherwise appends the line and one line
\* terminator to the child's stdin; nothing else writes to it
SendCommandWritesLine ==
    [][/\ \A c \in Caller :
             Calls(c) => IF process = "none"
                         THEN stdin' = stdin /\ returned' = [caller |-> c, value |-> "error"]
                         ELSE stdin' = Append(stdin, <<"list", "\n">>) /\ returned' = NoReturn
       /\ \A r \in HttpReq :
             (Returns(r, "stop") /\ response'.result # "405")
                => IF process = "none"
                   THEN stdin' = stdin /\ response'.result = "error"
                   ELSE stdin' = Append(stdin, <<"stop", "\n">>) /\ response'.result = "ok"
       /\ stdin' # stdin =>
             \/ \E c \in Caller : Calls(c)
             \/ \E r \in HttpReq : Returns(r, "stop")
             \/ \E r \in Req : pc[r] = "spawning" /\ stdin' = <<>>
      ]_vars

\* a call made after cleanup has cleared the handle has just failed, and the stdin
\* of the process that is gone holds what was written to it and nothing more
SendCommandWritesLineWitness ==
    /\ returned.value = "error"
    /\ process = "none" /\ relay_tasks = "cancelled"
    /\ stdin = << <<"list", "\n">>, <<"stop", "\n">> >>


----------------------------------------------------------------------------
\* start() calls suspended in create_subprocess_exec
Spawning == {r \in Req : pc[r] = "spawning"}
\* the children not yet cleaned up and those being spawned
Children == Cardinality(Spawning) + (IF process # "none" THEN 1 ELSE 0)

\* C23: there is at most one child process, being spawned, live or exited and
\* not yet cleaned up, whatever starts are waiting; a spawn begins and completes
\* only with no process handle, no cleanup pending and no relay task running
OneChildAtATime ==
    /\ Children <= 1
    /\ [][/\ Children' <= 1
          /\ \A r \in Req :
                (pc'[r] = "spawning" \/ (pc[r] = "spawning" /\ process' = "live"))
                   => /\ process = "none" /\ ~cleanup_task
                      /\ relay_tasks # "running"
         ]_vars

\* a second start, accepted while the first waited for the write permit, is kept
\* waiting for the gate while the server of the first runs
OneChildAtATimeWitness ==
    /\ process = "live" /\ status = "running"
    /\ \E s \in HttpReq : StartPending(s)

\* C28: a handler of send_command_and_wait is in the registry only while its call
\* is outstanding and has had no response: not after the call has returned, and
\* not after it has failed in send_command
OneShotOnlyWhileOutstanding ==
    \A i \in 1..Len(log_events) :
        log_events[i].callback = "callback" =>
            log_events[i].caller \in Caller /\ Awaiting(log_events[i].caller)

\* C21: the dispatch of a message matching the join pattern for a name makes the
\* name a key of the roster mapped to the current time and changes nothing else
\* of the roster; the dispatch of a message matching the leave pattern for a name
\* in the roster removes that key, keeps the others and sets the last-departure
\* timestamp to the current time; no other step changes the roster or the
\* last-departure timestamp.
RosterFollowsJoinsAndLeaves ==
    [][/\ \A name \in Names :
             Dispatches(joined_msg(name)) =>
                /\ DOMAIN players' = DOMAIN players \cup {name}
                /\ players'[name] = now
                /\ \A other \in DOMAIN players \ {name} : players'[other] = players[other]
                /\ last_part' = last_part
       /\ \A name \in Names :
             (Dispatches(left_msg(name)) /\ name \in DOMAIN players) =>
                /\ DOMAIN players' = DOMAIN players \ {name}
                /\ \A other \in DOMAIN players' : players'[other] = players[other]
                /\ last_part' = now
       /\ (\A line \in RosterLines : ~Dispatches(line)) =>
             players' = players /\ last_part' = last_part
      ]_vars

\* Bob has joined at a later time than Alice, who has just left
RosterFollowsJoinsAndLeavesWitness ==
    /\ dispatch.line = left_msg("Alice") /\ ~dispatch.raised
    /\ DOMAIN players = {"Bob"} /\ players["Bob"] > 0
    /\ last_part = now /\ last_part > players["Bob"]

\* C29: no dispatch of a line ends the output task: after the dispatch of any line
\* the task is still running and reads the lines that follow.
NoLineStopsOutputRelay ==
    [][(dispatch'.line # "none") => relay_tasks' = "running"]_vars

\* C30: whenever status is stopped there is no child process and the roster is
\* empty.
StoppedMeansNoPlayers ==
    status = "stopped" => process = "none" /\ DOMAIN players = {}

\* C22: lines are dispatched in the order the child printed them: a dispatch
\* handles the oldest line not yet read and removes it from the stream, with all
\* its handler calls and state updates done in that step; the stream changes
\* otherwise only by a line printed at its end, or with the child it belongs to.
DispatchInEmissionOrder ==
    [][/\ dispatch'.line # "none" =>
             pipe # <<>> /\ dispatch'.line = Head(pipe) /\ pipe' = Tail(pipe)
       /\ pipe' # pipe =>
             \/ dispatch'.line # "none"
             \/ dispatch' = NoDispatch /\ \E line \in AllLines : pipe' = Append(pipe, line)
             \/ dispatch' = NoDispatch /\ pipe' = <<>> /\ process' = "none"
      ]_vars

\* Alice's join has been dispatched while her departure, printed after it, waits
DispatchInEmissionOrderWitness ==
    /\ dispatch.line = joined_msg("Alice") /\ "Alice" \in DOMAIN players
    /\ pipe = <<left_msg("Alice")>>

\* one complete line: a terminator at the end and nowhere else
TerminatedLine(data) ==
    /\ Len(data) > 0 /\ data[Len(data)] = "\n"
    /\ \A i \in 1..(Len(data) - 1) : data[i] # "\n"

\* C26: every write to the child's stdin is one complete terminated line, added in
\* one step; and the characters fed to the input relay leave its buffer only as
\* the first complete line of the buffer, forwarded to the child or read as the
\* request for the list of players: what follows the line, a partial line
\* included, stays in the buffer.
StdinWritesAreWholeLines ==
    /\ \A i \in 1..Len(stdin) : TerminatedLine(stdin[i])
    /\ [][/\ stdin' # stdin =>
                \/ stdin' = <<>>
                \/ /\ Len(stdin') = Len(stdin) + 1
                   /\ stdin' = Append(stdin, stdin'[Len(stdin')])
                   /\ TerminatedLine(stdin'[Len(stdin')])
          /\ input_stream' # input_stream =>
                \/ \E data \in Chunks : input_stream' = input_stream \o data
                \/ \E n \in 1..Len(input_stream) :
                      /\ TerminatedLine(SubSeq(input_stream, 1, n))
                      /\ input_stream' = SubSeq(input_stream, n + 1, Len(input_stream))
                      /\ \/ stdin' = Append(stdin, SubSeq(input_stream, 1, n))
                         \/ SubSeq(input_stream, 1, n) = <<"l", "l", "\n">> /\ stdin' = stdin
         ]_vars

\* C27: a request cancelled while it waits in acquire_read or acquire_write
\* releases nothing: the reader count is always the number of exports that hold a
\* read permit, and the write permit is given up only in a step in which its
\* holder, a request or the server at its cleanup, ceases to hold it.
CancelledWaiterReleasesNothing ==
    /\ [](world_reading = Cardinality(ReadHolders))
    /\ [][(world_write_lock /\ ~world_write_lock') =>
             \/ \E r \in WriteHolders : r \notin WriteHolders'
             \/ ServerHolds /\ ~ServerHolds'
         ]_vars

\* C24: no writer starvation: every holder of a permit releasing it in the end and
\* the tasks being scheduled fairly, an import that waits in acquire_write is in
\* the end granted the write permit, whatever exports arrive meanwhile.
NoWriterStarvation ==
    \A r \in HttpReq :
        (kind[r] = "import" /\ pc[r] \in {"aw_lock", "aw_wait", "aw_reacq", "aw_wlock"})
           ~> (pc[r] = "post")

\* the exports and imports that hold their permit
PermitHolders == {r \in HttpReq : pc[r] \in {"streaming", "eof", "rr_lock", "post"}}

\* C25: called while status is starting, running or stopping, world_files yields
\* no entry and world_extract leaves every file and directory as it is; and
\* from the grant of its permit to its end an export or import of the handlers
\* sees status stopped.
WorldAccessOnlyWhenStopped ==
    /\ [](PermitHolders # {} => status = "stopped")
    /\ [][/\ PermitHolders # {} => status' = "stopped"
          /\ (status # "stopped" /\ <<fs, upload, outcome>>' # <<fs, upload, outcome>>) =>
                /\ fs' = fs
                /\ outcome'.op \in {"world_files", "world_extract"}
                /\ outcome'.op = "world_files" => upload'.members = <<>>
                /\ outcome'.op = "world_extract" => outcome'.result = "noop"
         ]_vars

\* world_extract has been called with an archive of a world while the server
\* runs, the working directory holding a world and a world_new
WorldAccessOnlyWhenStoppedWitness ==
    /\ status = "running" /\ process = "live"
    /\ outcome.op = "world_extract" /\ outcome.result = "noop"
    /\ Len(upload.members) = 2
    /\ exists(fs, resolve(world_new_path))

\* the normalised name m lies in the directory dirname, or is dirname itself: what
\* follows dirname in m starts at a component boundary
inside(m, dirname) ==
    \/ dirname = <<>>
    \/ m = dirname
    \/ startswith(m, dirname \o <<"/">>)

\* the members of an archive that lie inside dirname, in their order
RECURSIVE members_inside(_, _)
members_inside(members, dirname) ==
    IF members = <<>> THEN <<>>
    ELSE (IF inside(normpath(Head(members).name), dirname) THEN <<Head(members)>> ELSE <<>>)
         \o members_inside(Tail(members), dirname)

\* C31: a successful import extracts exactly the entries of the archive that lie
\* inside the stripped directory at a path-component boundary: the new world is
\* the tree these entries make, each at its path relative to that directory, and
\* an entry of a sibling directory whose name only begins with the same
\* characters leaves nothing in it.
OnlyEntriesInsidePrefixExtracted ==
    [][(Extracts /\ outcome'.result = "ok") =>
           tree_at(fs', resolve(world_path)) =
               extracted_tree(members_inside(upload'.members,
                                             normalised_dirname(outcome'.dirname)),
                              outcome'.dirname)]_vars

=============================================================================
